---- MODULE Spec2Model ----
(***************************************************************************)
(* Stock adjustment engine of product-api: the Product table with its      *)
(* optimistic-lock version column, ProductService and the order event      *)
(* handlers, run from request-scoped SQLAlchemy sessions.                  *)
(*                                                                         *)
(* A session is opened per HTTP request (core/database.py get_db) or per   *)
(* consumed message (main.py consumer_handler), so every session runs one  *)
(* call.  A step of a call is one database statement (SELECT, or the       *)
(* flush + COMMIT of Session.commit) together with the in-memory code      *)
(* around it, or the awaited publish that follows a COMMIT; other sessions *)
(* may run between two steps.  The table is kept by PostgreSQL or by the   *)
(* SQLite file the settings fall back to, which differ in the id a new     *)
(* row is given.                                                           *)
(***************************************************************************)
EXTENDS Integers, Sequences, FiniteSets, TLC

VARIABLES
    db,        \* products table: id -> row, for the ids that have a row
    nextId,    \* next value of the primary-key sequence (PostgreSQL)
    dialect,   \* the database behind DATABASE_URL: "postgresql" or "sqlite"
    mq,        \* broker: "up", "down" (exchange is None) or "flaky"
    pc,        \* per session: position of its call
    op,        \* per session: the call and its arguments
    idx,       \* per session: index of the handler's current item
    cache,     \* per session: identity map, id -> row as last loaded
    staged,    \* per session: id and patch handed to repo.update_product, and
               \* the object it is applied to, as loaded
    outcome,   \* per session: "none" while running, then "ok" or the exception
    pub,       \* per session: events this call published, in order
    calls,     \* per session: publish_message calls this call made, in order
    wr,        \* per session: writes this call committed, in order
    ack        \* per session: what the consumer told the broker about the
               \* message the session served: "none", "acked" or "rejected"

vars == <<db, nextId, dialect, mq, pc, op, idx, cache, staged, outcome, pub, calls, wr, ack>>

(***************************************************************************)
(* Bounds of the model.                                                    *)
(***************************************************************************)
MaxQty == 1      \* initial quantities range over 0..MaxQty
MaxReq == 1      \* item quantities and delta magnitudes range up to MaxReq
MaxItems == 2    \* longest cleaned item / delta list of an order event
MaxEv == 1       \* expected versions (If-Match) range over 1..MaxEv
MaxPrice == 1    \* prices range over 0..MaxPrice

Sessions == {"s1", "s2"}
InitIds == {1, 2}
\* ids a call may name: the initial products and one id that has no row
\* until a create call makes it
TargetIds == InitIds \cup {Cardinality(InitIds) + 1}
SKUs == {"A", "B", "C"}
InitSku(i) == IF i = 1 THEN "A" ELSE "B"
\* product 1 is in stock, product 2 is out of stock
InitQty(i) == IF i = 1 THEN MaxQty ELSE 0
\* the session that serves the first consumed message: one consumer task
\* handles its messages one at a time, so two handlers never run side by side
Consumer == "s1"

\* Settings.DATABASE_URL: a PostgreSQL server (DATABASE_URL or POSTGRES_*) or
\* the SQLite file the settings fall back to
Dialects == {"postgresql", "sqlite"}

NoRows == [i \in {} |-> 0]
NoPatch == [f \in {} |-> 0]
None == {}

(***************************************************************************)
(* Product rows (models/product.py).                                       *)
(***************************************************************************)
\* price: the column's server default until a create or an update sets it
Product(sku, quantity, is_active, version) ==
    [sku |-> sku, quantity |-> quantity, is_active |-> is_active, version |-> version,
     price |-> 0]

NoProduct == Product("", 0, FALSE, 0)

chk_product_quantity_nonneg(row) == row.quantity >= 0

\* the table without its unique constraint
uq_product_sku_absent(d, id, row) == TRUE

uq_product_sku(d, id, row) == \A j \in DOMAIN d : j # id => d[j].sku # row.sku

\* a generator that skips a value
version_id_generator_skip(v) == v + 2

version_id_generator(v) == v + 1

\* the table after DELETE of row id
Without(d, id) == [j \in DOMAIN d \ {id} |-> d[j]]

(***************************************************************************)
(* Repository reads through the session's identity map.  Session.get       *)
(* returns the object already in the identity map when it is not expired,  *)
(* without a SELECT; commit and rollback expire every object.              *)
(***************************************************************************)
get_product_found(s, id) == id \in DOMAIN cache[s] \/ id \in DOMAIN db

get_product(s, id) == IF id \in DOMAIN cache[s] THEN cache[s][id] ELSE db[id]

Loaded(s, id) == (id :> get_product(s, id)) @@ cache[s]

\* a lookup that finds no product
get_by_sku_none(d, sku) == {}

get_by_sku(d, sku) == {j \in DOMAIN d : d[j].sku = sku}

(***************************************************************************)
(* ProductUpdate.model_dump(exclude_unset=True) is the patch itself: a     *)
(* record over the fields that were set.                                   *)
(***************************************************************************)
\* every field written, the ones that were not set with their defaults
ApplyPatch_reset(row, patch) ==
    [f \in DOMAIN row |-> IF f \in DOMAIN patch THEN patch[f] ELSE NoProduct[f]]

\* setattr for the fields that were set (model_dump(exclude_unset=True))
ApplyPatch(row, patch) ==
    [f \in DOMAIN row |-> IF f \in DOMAIN patch THEN patch[f] ELSE row[f]]

\* the unit of work emits an UPDATE only for attributes whose value differs
\* from the loaded one
NetChange(row, patch) == \E f \in DOMAIN patch : patch[f] # row[f]

\* the statement conditioned on the id alone
VersionMatches_any(d, id, snap) == id \in DOMAIN d

\* UPDATE products SET ..., version = :new WHERE id = :id AND version = :old
VersionMatches(d, id, snap) == id \in DOMAIN d /\ d[id].version = snap.version

\* the SET clause of that UPDATE: the attributes whose value differs from the
\* loaded one; the other columns of the stored row are not written
Changed(snap, patch) ==
    [f \in {g \in DOMAIN patch : patch[g] # snap[g]} |-> patch[f]]

\* the flush of update_product's db.commit(): the UPDATE acts on the stored
\* row, and the new version is computed from the loaded one
update_flush(d, id, snap, patch) ==
    LET new == [ApplyPatch(d[id], Changed(snap, patch))
                   EXCEPT !.version = version_id_generator(snap.version)]
    IN  IF ~NetChange(snap, patch) THEN [res |-> "noop", db |-> d]
        ELSE IF ~VersionMatches(d, id, snap) THEN [res |-> "stale", db |-> d]
        ELSE IF ~(chk_product_quantity_nonneg(new) /\ uq_product_sku(d, id, new))
             THEN [res |-> "integrity", db |-> d]
        ELSE [res |-> "ok", db |-> [d EXCEPT ![id] = new]]

(***************************************************************************)
(* StockLedger rule of ProductService.adjust_stock.                        *)
(***************************************************************************)
new_qty(quantity, delta) == quantity + delta

\* the check left out
InsufficientStock_unchecked(quantity, delta) == FALSE

InsufficientStock(quantity, delta) == new_qty(quantity, delta) < 0

(***************************************************************************)
(* Calls.                                                                  *)
(***************************************************************************)
Item(p, q) == [product_id |-> p, quantity |-> q]
Delta(p, d) == [product_id |-> p, delta |-> d]

SeqsUpTo(S, n) == UNION {[1..k -> S] : k \in 0..n}

\* an entry of a payload's "items" / "deltas" list as received: ok is FALSE
\* when int(it["product_id"]) or int(it[...]) raises (key missing, not a number)
\* n is int(value); frac tells that the value had a fractional part, which
\* int() cuts off
RawEntry(ok, p, n) == [ok |-> ok, product_id |-> p, n |-> n, frac |-> FALSE]

RawEntries ==
    {RawEntry(TRUE, p, n) : p \in TargetIds, n \in -1..MaxReq} \cup {RawEntry(FALSE, 0, 0)}

\* payload.get("items", []): the key is missing, its value is not a list, or
\* it is a list
RawList(shape, l) == [shape |-> shape, list |-> l]

RawLists ==
    {RawList("missing", <<>>), RawList("notalist", <<>>)}
    \cup {RawList("list", l) : l \in SeqsUpTo(RawEntries, MaxItems)}

\* _clean_items: entries that do not convert and negative quantities are
\* dropped, the others are kept in order; a quantity of 0 is kept
RECURSIVE CleanedItems(_)
CleanedItems(l) ==
    IF l = <<>> THEN <<>>
    ELSE (IF Head(l).ok /\ ~(Head(l).n < 0)
          THEN <<Item(Head(l).product_id, Head(l).n)>> ELSE <<>>)
         \o CleanedItems(Tail(l))

_clean_items(raw) == IF raw.shape # "list" THEN <<>> ELSE CleanedItems(raw.list)

\* _clean_deltas: entries that do not convert and deltas of 0 are dropped
RECURSIVE CleanedDeltas(_)
CleanedDeltas(l) ==
    IF l = <<>> THEN <<>>
    ELSE (IF Head(l).ok /\ ~(Head(l).n = 0)
          THEN <<Delta(Head(l).product_id, Head(l).n)>> ELSE <<>>)
         \o CleanedDeltas(Tail(l))

\* deltas of 0 kept
_clean_deltas_keep_zero(raw) ==
    IF raw.shape # "list" THEN <<>>
    ELSE LET kept == SelectSeq(raw.list, LAMBDA e : e.ok)
         IN  [k \in 1..Len(kept) |-> Delta(kept[k].product_id, kept[k].n)]

_clean_deltas(raw) == IF raw.shape # "list" THEN <<>> ELSE CleanedDeltas(raw.list)

ItemLists == {_clean_items(raw) : raw \in RawLists}
DeltaLists == {_clean_deltas(raw) : raw \in RawLists}

NoCall == [kind |-> "none", id |-> 0, delta |-> 0, is_active |-> FALSE,
           patch |-> NoPatch, ev |-> None, raw |-> RawList("missing", <<>>),
           items |-> <<>>, deltas |-> <<>>, status |-> "",
           rk |-> "", decoded |-> TRUE, customer |-> TRUE]

CreateData == [sku : SKUs, quantity : {MaxQty}, is_active : {TRUE}, price : {0}]

Patches ==
    {NoPatch} \cup {[quantity |-> q] : q \in 0..MaxQty} \cup {[price |-> p] : p \in 1..MaxPrice}

SkuPatches == {[sku |-> k] : k \in SKUs}

ExpectedVersions == {None} \cup {{v} : v \in 1..MaxEv}

ServiceCalls ==
    {[NoCall EXCEPT !.kind = "create", !.patch = d] : d \in CreateData}
    \cup {[NoCall EXCEPT !.kind = "upsert_by_sku", !.patch = d] : d \in CreateData}
    \cup {[NoCall EXCEPT !.kind = "update", !.id = i, !.patch = p, !.ev = e] :
            i \in TargetIds, p \in Patches, e \in ExpectedVersions}
    \cup {[NoCall EXCEPT !.kind = "update", !.id = i, !.patch = p] :
            i \in TargetIds, p \in SkuPatches}
    \cup {[NoCall EXCEPT !.kind = "delete", !.id = i] : i \in TargetIds}
    \cup {[NoCall EXCEPT !.kind = "adjust_stock", !.id = i, !.delta = d] :
            i \in TargetIds, d \in -MaxReq..MaxReq}
    \cup {[NoCall EXCEPT !.kind = "set_active", !.id = i, !.is_active = b] :
            i \in TargetIds, b \in BOOLEAN}

Handlers == {"order_created", "order_items_delta", "order_cancelled", "order_deleted"}
Reserving == {"order_created", "order_items_delta"}

\* the handlers main.py imports that handlers.py does not define: they are
\* modelled from the specification's handler table
SpecHandlers == {"order_ready_for_stock", "order_price_request"}

\* the handlers that work through a cleaned list
Batching == Handlers \cup SpecHandlers

\* what a consumed message may come to besides: a handler that only logs, or
\* no handler at all
Logging == {"order_rejected", "order_updated", "ignored"}

\* the status compared as it was sent
lower_asis(st) == st

\* status = (payload.get("status") or "").lower()
lower(st) == IF st = "REJECTED" THEN "rejected" ELSE st

\* a handler is called with the payload of its message and begins by
\* cleaning the list it works on
HandlerCalls ==
    {[NoCall EXCEPT !.kind = "order_created", !.raw = r, !.items = _clean_items(r)] :
            r \in RawLists}
    \cup {[NoCall EXCEPT !.kind = "order_cancelled", !.raw = r, !.items = _clean_items(r)] :
            r \in RawLists}
    \cup {[NoCall EXCEPT !.kind = "order_deleted", !.raw = r, !.items = _clean_items(r),
                         !.status = st] :
            r \in RawLists, st \in {"rejected", "cancelled"}}
    \cup {[NoCall EXCEPT !.kind = "order_items_delta", !.raw = r, !.deltas = _clean_deltas(r)] :
            r \in RawLists}

\* the messages that may follow the first one: a redelivery of it, or another
\* event of the same order, carrying the same entries
FollowUps(first) ==
    {o \in HandlerCalls :
        /\ (o.kind = "order_items_delta") = (first.kind = "order_items_delta")
        /\ o.raw = first.raw}

(***************************************************************************)
(* Messages of the queue product-events, as start_consumer receives them.  *)
(***************************************************************************)
\* an entry whose quantity / delta is the number n + 0.5
RawFloat(p, n) == [ok |-> TRUE, product_id |-> p, n |-> n, frac |-> TRUE]

WireEntries == RawEntries \cup {RawFloat(1, n) : n \in 1..MaxReq}

WireLists ==
    {RawList("missing", <<>>), RawList("notalist", <<>>)}
    \cup {RawList("list", l) : l \in SeqsUpTo(WireEntries, MaxItems)}

\* the "status" of a payload; "": the key is missing
WireStatuses == {"", "rejected", "REJECTED", "cancelled"}

RoutingKeys ==
    {"order.created", "order.items_delta", "order.cancelled", "order.rejected",
     "order.deleted", "order.updated", "order.request_price", "order.ready_for_stock",
     "order.unknown", "customer.created"}

\* decodes: the body is JSON; the other fields are what the JSON object holds
Message(rk, decodes, raw, status, customer) ==
    [rk |-> rk, decodes |-> decodes, raw |-> raw, status |-> status, customer |-> customer]

\* the messages of routing key rk whose body is JSON, with a list of raws
MessagesOf(rk, raws) ==
    {Message(rk, TRUE, raw, st, c) :
        raw \in raws,
        st \in IF rk \in {"order.deleted", "order.updated", "order.rejected"}
              THEN WireStatuses ELSE {""},
        c \in IF rk = "order.request_price" THEN BOOLEAN ELSE {TRUE}}

\* the message of routing key rk whose body is not JSON, though it spells
\* an item (single quotes, say)
Undecodable(rk) ==
    Message(rk, FALSE, RawList("list", <<RawEntry(TRUE, 1, MaxReq)>>), "", TRUE)

Messages == UNION {MessagesOf(rk, WireLists) \cup {Undecodable(rk)} : rk \in RoutingKeys}

\* the body read as if it were JSON
json_loads_lenient(m) == m

\* start_consumer: json.loads of the body, or the payload {"raw": body},
\* which has no items, deltas, status or customer_id
json_loads(m) ==
    IF m.decodes THEN m
    ELSE Message(m.rk, FALSE, RawList("missing", <<>>), "", FALSE)

\* every routing key handled as order.cancelled
consumer_handler_any(rk) == "order_cancelled"

\* consumer_handler: the if / elif chain over the routing key
consumer_handler(rk) ==
    CASE rk = "order.items_delta" -> "order_items_delta"
      [] rk = "order.cancelled" -> "order_cancelled"
      [] rk = "order.rejected" -> "order_rejected"
      [] rk = "order.deleted" -> "order_deleted"
      [] rk = "order.updated" -> "order_updated"
      [] rk = "order.request_price" -> "order_price_request"
      [] rk = "order.ready_for_stock" -> "order_ready_for_stock"
      [] OTHER -> "ignored"

\* the call a message comes to: the handler of its routing key with the
\* decoded payload, the handler cleaning the list it works on
Delivered(m) ==
    LET payload == json_loads(m)
        kind == consumer_handler(m.rk)
    IN  [NoCall EXCEPT
            !.kind = kind, !.rk = m.rk, !.decoded = m.decodes,
            !.raw = payload.raw, !.status = payload.status, !.customer = payload.customer,
            !.items = IF kind \in Batching \ {"order_items_delta"}
                      THEN _clean_items(payload.raw) ELSE <<>>,
            !.deltas = IF kind = "order_items_delta"
                       THEN _clean_deltas(payload.raw) ELSE <<>>]

FirstPc(o) ==
    CASE o.kind = "create" -> "create"
      [] o.kind = "upsert_by_sku" -> "upsert"
      [] o.kind = "update" -> "update"
      [] o.kind = "set_active" -> "update"
      [] o.kind = "delete" -> "delete"
      [] o.kind = "adjust_stock" -> "adjust"
      [] o.kind \in Logging -> "done"
      [] o.kind \in Batching ->
            IF Len(IF o.kind = "order_items_delta" THEN o.deltas ELSE o.items) = 0
            THEN "done"
            ELSE IF o.kind = "order_deleted" /\ lower(o.status) = "rejected" THEN "done"
            ELSE IF o.kind = "order_price_request" /\ ~o.customer THEN "done"
            ELSE IF o.kind \in Reserving THEN "check"
            ELSE IF o.kind = "order_ready_for_stock" THEN "dry_run"
            ELSE IF o.kind = "order_price_request" THEN "price"
            ELSE "adjust"

\* set_active handing over the opposite flag
UpdatePatch_flipped(o) ==
    IF o.kind = "set_active" THEN [is_active |-> ~o.is_active] ELSE o.patch

\* the ProductUpdate a call hands to ProductService.update
UpdatePatch(o) ==
    IF o.kind = "set_active" THEN [is_active |-> o.is_active] ELSE o.patch

(***************************************************************************)
(* The entries a handler works through, and the stock delta of each.       *)
(***************************************************************************)
Entries(o) == IF o.kind = "order_items_delta" THEN o.deltas ELSE o.items

EntryDelta(o, i) ==
    CASE o.kind \in {"order_created", "order_ready_for_stock"} -> -(o.items[i].quantity)
      [] o.kind = "order_items_delta" -> -(o.deltas[i].delta)
      [] OTHER -> o.items[i].quantity

\* what the availability pre-check asks of entry i (0: the entry is not checked)
EntryNeeded(o, i) ==
    CASE o.kind = "order_created" -> o.items[i].quantity
      [] o.kind = "order_items_delta" ->
            IF o.deltas[i].delta > 0 THEN o.deltas[i].delta ELSE 0
      [] OTHER -> 0

EntryChecked(o, i) ==
    \/ o.kind = "order_created"
    \/ o.kind = "order_items_delta" /\ o.deltas[i].delta > 0

\* the product the pre-check of handle_order_created / handle_order_items_delta
\* looked at last (0: none).  Its object is the only one the handler goes on
\* holding, in the loop variable product; every other object is dropped from
\* the session's weak identity map as soon as its last reference goes
LastChecked(o) ==
    LET ks == {k \in 1..Len(Entries(o)) : EntryChecked(o, k)}
    IN  IF o.kind \in Reserving /\ ks # {}
        THEN Entries(o)[CHOOSE k \in ks : \A j \in ks : j <= k].product_id
        ELSE 0

(***************************************************************************)
(* Events.                                                                 *)
(***************************************************************************)
NoReason == [product_id |-> 0, needed |-> 0, available |-> 0]

Event(rk, id) == [rk |-> rk, id |-> id, reason |-> NoReason, entries |-> <<>>]

Rejected(reason, entries) ==
    [rk |-> "order.rejected", id |-> 0, reason |-> reason, entries |-> entries]

\* RabbitMQ.publish_message: returns without publishing when the exchange is
\* not available, and swallows a failed publish; it never raises
PublishResults == IF mq = "up" THEN {TRUE} ELSE IF mq = "down" THEN {FALSE} ELSE BOOLEAN

publish_message(s, ev, sent) ==
    /\ calls' = [calls EXCEPT ![s] = Append(@, ev)]
    /\ pub' = [pub EXCEPT ![s] = IF sent THEN Append(@, ev) ELSE @]

\* a failed publish raised to the caller
Swallowed_raised(sent, result) == IF sent THEN result ELSE "AMQPError"

\* what the caller of publish_message goes on to return: publish_message
\* logs a failure (except Exception) and returns
Swallowed(sent, result) == result

Write(kind, id, vread, before, after) ==
    [kind |-> kind, id |-> id, vread |-> vread, before |-> before, after |-> after]

(***************************************************************************)
(* Initial state: two products created earlier (version 1), no call begun. *)
(***************************************************************************)
InitDb ==
    /\ db = [i \in InitIds |-> Product(InitSku(i), InitQty(i), TRUE, version_id_generator(0))]
    /\ nextId = Cardinality(InitIds) + 1
    /\ dialect \in Dialects

InitSessions ==
    /\ pc = [s \in Sessions |-> "idle"]
    /\ op = [s \in Sessions |-> NoCall]
    /\ idx = [s \in Sessions |-> 0]
    /\ cache = [s \in Sessions |-> NoRows]
    /\ staged = [s \in Sessions |-> [id |-> 0, patch |-> NoPatch, snap |-> NoProduct]]
    /\ outcome = [s \in Sessions |-> "none"]
    /\ pub = [s \in Sessions |-> <<>>]
    /\ calls = [s \in Sessions |-> <<>>]
    /\ wr = [s \in Sessions |-> <<>>]
    /\ ack = [s \in Sessions |-> "none"]

Init == InitDb /\ InitSessions /\ mq = "up"

InitMq == InitDb /\ InitSessions /\ mq \in {"up", "down", "flaky"}

(***************************************************************************)
(* Leaving a call: the result or the exception; the session is closed.     *)
(***************************************************************************)
\* aio_pika's message.process(): ack when the block ends normally, reject
\* (no requeue) when an exception leaves it
process(raised) == IF raised THEN "rejected" ELSE "acked"

\* start_consumer: an exception of the handler is logged inside the
\* message.process() block and not raised again
Escapes(result) == FALSE

\* a message left unsettled when its handler raised
start_consumer_unsettled(o, result) ==
    IF o.kind \in Batching \cup Logging
    THEN (IF result = "ok" THEN "acked" ELSE "none") ELSE "none"

start_consumer(o, result) ==
    IF o.kind \in Batching \cup Logging
    THEN process(result # "ok" /\ Escapes(result)) ELSE "none"

Return(s, result) ==
    /\ pc' = [pc EXCEPT ![s] = "done"]
    /\ outcome' = [outcome EXCEPT ![s] = result]
    /\ ack' = [ack EXCEPT ![s] = start_consumer(op[s], result)]

Goto(s, label) == pc' = [pc EXCEPT ![s] = label] /\ UNCHANGED <<outcome, ack>>

\* the identity map after the step; Session.close() empties it
Remember(s, c) == cache' = [cache EXCEPT ![s] = IF pc'[s] = "done" THEN NoRows ELSE c]

\* a request arrives or a handler is invoked with its cleaned payload: the
\* session starts its call (a handler whose list is empty, and order.deleted
\* with status "rejected", return at once)
Call(s, o) ==
    /\ pc[s] = "idle"
    /\ op' = [op EXCEPT ![s] = o]
    /\ pc' = [pc EXCEPT ![s] = FirstPc(o)]
    /\ outcome' = [outcome EXCEPT ![s] = IF FirstPc(o) = "done" THEN "ok" ELSE "none"]
    /\ ack' = [ack EXCEPT ![s] = IF FirstPc(o) = "done" THEN start_consumer(o, "ok") ELSE "none"]
    /\ idx' = [idx EXCEPT ![s] = IF o.kind \in Batching THEN 1 ELSE 0]
    /\ staged' = [staged EXCEPT ![s] = [id |-> o.id, patch |-> UpdatePatch(o), snap |-> NoProduct]]
    /\ UNCHANGED <<db, nextId, dialect, mq, cache, pub, calls, wr>>

ServiceCall(s) == pc[s] = "idle" /\ \E o \in ServiceCalls : Call(s, o)

\* the consumer hands a message to its handler; the next message is handled
\* when the first one is done
HandlerCall(s) ==
    \/ s = Consumer /\ pc[s] = "idle" /\ \E o \in HandlerCalls : Call(s, o)
    \/ /\ s # Consumer /\ pc[s] = "idle"
       /\ pc[Consumer] = "done" /\ op[Consumer].kind \in Handlers
       /\ \E o \in FollowUps(op[Consumer]) : Call(s, o)

\* a handler started for each message as soon as it is prefetched
Deliver_prefetched(s) ==
    \/ s = Consumer /\ pc[s] = "idle" /\ \E m \in Messages : Call(s, Delivered(m))
    \/ /\ s # Consumer /\ pc[s] = "idle" /\ pc[Consumer] # "idle"
       /\ \E rk \in RoutingKeys :
             \E m \in IF op[Consumer].decoded
                       THEN MessagesOf(rk, {op[Consumer].raw})
                       ELSE {Undecodable(rk)} :
                Call(s, Delivered(m))

\* start_consumer takes a message from the queue and awaits consumer_handler;
\* the next message, here one with the same payload, is taken when the first
\* one is settled
Deliver(s) ==
    \/ s = Consumer /\ pc[s] = "idle" /\ \E m \in Messages : Call(s, Delivered(m))
    \/ /\ s # Consumer /\ pc[s] = "idle" /\ pc[Consumer] = "done"
       /\ \E rk \in RoutingKeys :
             \E m \in IF op[Consumer].decoded
                       THEN MessagesOf(rk, {op[Consumer].raw})
                       ELSE {Undecodable(rk)} :
                Call(s, Delivered(m))

(***************************************************************************)
(* ProductService.create and repository.create_product.                    *)
(***************************************************************************)
\* create: the get_by_sku pre-check (a SELECT)
svc_create(s) ==
    /\ pc[s] = "create"
    /\ IF get_by_sku(db, op[s].patch.sku) # {}
       THEN Return(s, "SKUAlreadyExistsError")
       ELSE Goto(s, "create_commit")
    /\ Remember(s, cache[s])
    /\ UNCHANGED <<db, nextId, dialect, mq, op, idx, staged, pub, calls, wr>>

\* the id an INSERT gives the new row (Product.id, an Integer primary key
\* without a value): PostgreSQL takes the next value of the column's
\* sequence, SQLite the largest rowid of the table plus one, so that SQLite
\* gives the id of a deleted last row again
MaxId(d) == IF DOMAIN d = {} THEN 0 ELSE CHOOSE i \in DOMAIN d : \A j \in DOMAIN d : j <= i

NewId(d) == IF dialect = "sqlite" THEN MaxId(d) + 1 ELSE nextId

\* create_product: INSERT and COMMIT; the unique constraint decides.  The
\* sequence of PostgreSQL advances whether or not the INSERT succeeds
repo_create_product(s) ==
    /\ pc[s] = "create_commit"
    /\ LET d == op[s].patch
           id == NewId(db)
           row == [Product(d.sku, d.quantity, d.is_active, version_id_generator(0))
                      EXCEPT !.price = d.price]
       IN  IF uq_product_sku(db, id, row) /\ chk_product_quantity_nonneg(row)
           THEN /\ db' = (id :> row) @@ db
                /\ wr' = [wr EXCEPT ![s] = Append(@, Write("insert", id, 0, row, row))]
                /\ staged' = [staged EXCEPT ![s].id = id]
                /\ Goto(s, "create_publish")
           ELSE /\ Return(s, "SKUAlreadyExistsError")
                /\ UNCHANGED <<db, wr, staged>>
    /\ nextId' = IF dialect = "sqlite" THEN nextId ELSE nextId + 1
    /\ Remember(s, NoRows)
    /\ UNCHANGED <<dialect, mq, op, idx, pub, calls>>

\* create_product: db.refresh, then create publishes product.created
svc_create_publish(s) ==
    /\ pc[s] = "create_publish"
    /\ IF staged[s].id \in DOMAIN db
       THEN \E sent \in PublishResults :
                 /\ publish_message(s, Event("product.created", staged[s].id), sent)
                 /\ Return(s, Swallowed(sent, "ok"))
       ELSE /\ Return(s, "InvalidRequestError")
            /\ UNCHANGED <<pub, calls>>
    /\ Remember(s, NoRows)
    /\ UNCHANGED <<db, nextId, dialect, mq, op, idx, staged, wr>>

(***************************************************************************)
(* ProductService.update and repository.update_product.                    *)
(***************************************************************************)
\* the pre-check left out
VersionPreCheckFails_never(ev, version) == FALSE

\* the expected-version pre-check of update (None: no expectation)
VersionPreCheckFails(ev, version) == ev # None /\ version \notin ev

\* update: get_product, then the expected-version pre-check
svc_update(s) ==
    /\ pc[s] = "update"
    /\ IF ~get_product_found(s, op[s].id)
       THEN /\ Return(s, "NotFoundError")
            /\ UNCHANGED staged
       ELSE /\ IF VersionPreCheckFails(op[s].ev, get_product(s, op[s].id).version)
               THEN Return(s, "ConcurrencyConflictError")
               ELSE Goto(s, "update_commit")
            /\ staged' = [staged EXCEPT ![s].snap = get_product(s, op[s].id)]
    /\ Remember(s, IF get_product_found(s, op[s].id) THEN Loaded(s, op[s].id) ELSE cache[s])
    /\ UNCHANGED <<db, nextId, dialect, mq, op, idx, pub, calls, wr>>

\* update_product: setattr of the patch, then db.commit() (flush + COMMIT)
repo_update_product(s) ==
    /\ pc[s] = "update_commit"
    /\ LET id == staged[s].id
           snap == cache[s][id]
           r == update_flush(db, id, snap, staged[s].patch)
       IN  /\ db' = r.db
           /\ wr' = [wr EXCEPT ![s] =
                        IF r.res = "ok"
                        THEN Append(@, Write("update", id, snap.version, db[id], r.db[id]))
                        ELSE @]
           /\ CASE r.res \in {"ok", "noop"} -> Goto(s, "update_publish")
                [] r.res = "stale" -> Return(s, "ConcurrencyConflictError")
                [] r.res = "integrity" -> Return(s, "SKUAlreadyExistsError")
    /\ Remember(s, NoRows)
    /\ UNCHANGED <<nextId, dialect, mq, op, idx, staged, pub, calls>>

\* update_product: db.refresh; update publishes product.updated and returns
\* to its caller
svc_update_publish(s) ==
    /\ pc[s] = "update_publish"
    /\ LET id == staged[s].id
           more == op[s].kind \in Batching /\ idx[s] < Len(Entries(op[s]))
       IN  IF id \notin DOMAIN db
           THEN /\ Return(s, "InvalidRequestError")
                /\ Remember(s, NoRows)
                /\ UNCHANGED <<pub, calls, idx>>
           ELSE /\ \E sent \in PublishResults :
                     /\ publish_message(s, Event("product.updated", id), sent)
                     /\ IF op[s].kind = "set_active" THEN Goto(s, "set_active_publish")
                        ELSE IF more THEN Goto(s, "adjust")
                        ELSE IF op[s].kind = "order_ready_for_stock"
                        THEN Goto(s, "follow_up")
                        ELSE Return(s, Swallowed(sent, "ok"))
                /\ idx' = [idx EXCEPT ![s] = IF more THEN @ + 1 ELSE @]
                \* the commit expired every object of the session and the
                \* refresh loaded this one again; a handler discards what
                \* adjust_stock returns, so the object stays only when the
                \* handler holds it as the product it checked last
                /\ Remember(s, IF op[s].kind \in Batching /\ id # LastChecked(op[s])
                                THEN NoRows ELSE id :> db[id])
    /\ UNCHANGED <<db, nextId, dialect, mq, op, staged, wr>>

\* set_active returning update's result without its own event
svc_set_active_publish_none(s) ==
    /\ pc[s] = "set_active_publish"
    /\ Return(s, "ok")
    /\ Remember(s, NoRows)
    /\ UNCHANGED <<db, nextId, dialect, mq, op, idx, staged, wr, pub, calls>>

\* set_active: the second event, product.activated or product.deactivated
svc_set_active_publish(s) ==
    /\ pc[s] = "set_active_publish"
    /\ \E sent \in PublishResults :
          /\ publish_message(s, Event(IF op[s].is_active THEN "product.activated"
                                      ELSE "product.deactivated", staged[s].id), sent)
          /\ Return(s, Swallowed(sent, "ok"))
    /\ Remember(s, NoRows)
    /\ UNCHANGED <<db, nextId, dialect, mq, op, idx, staged, wr>>

(***************************************************************************)
(* ProductService.delete and repository.delete_product.                    *)
(***************************************************************************)
\* delete_product: get_product
svc_delete(s) ==
    /\ pc[s] = "delete"
    /\ IF get_product_found(s, op[s].id)
       THEN Goto(s, "delete_commit") /\ Remember(s, Loaded(s, op[s].id))
       ELSE Return(s, "NotFoundError") /\ Remember(s, NoRows)
    /\ UNCHANGED <<db, nextId, dialect, mq, op, idx, staged, pub, calls, wr>>

\* delete_product: db.delete and db.commit() (DELETE ... WHERE id AND version)
repo_delete_product(s) ==
    /\ pc[s] = "delete_commit"
    /\ LET id == op[s].id
           snap == cache[s][id]
       IN  IF VersionMatches(db, id, snap)
           THEN /\ db' = Without(db, id)
                /\ wr' = [wr EXCEPT ![s] = Append(@, Write("delete", id, snap.version, db[id], db[id]))]
                /\ Goto(s, "delete_publish")
           ELSE /\ Return(s, "StaleDataError")
                /\ UNCHANGED <<db, wr>>
    /\ Remember(s, NoRows)
    /\ UNCHANGED <<nextId, dialect, mq, op, idx, staged, pub, calls>>

\* delete: the awaited publish of product.deleted, after the COMMIT; other
\* requests run on the event loop in between
svc_delete_publish(s) ==
    /\ pc[s] = "delete_publish"
    /\ \E sent \in PublishResults :
          /\ publish_message(s, Event("product.deleted", op[s].id), sent)
          /\ Return(s, Swallowed(sent, "ok"))
    /\ Remember(s, NoRows)
    /\ UNCHANGED <<db, nextId, dialect, mq, op, idx, staged, wr>>

(***************************************************************************)
(* ProductService.upsert_by_sku.                                           *)
(***************************************************************************)
svc_upsert_by_sku(s) ==
    /\ pc[s] = "upsert"
    /\ LET existing == get_by_sku(db, op[s].patch.sku)
       IN  IF existing = {}
           THEN /\ Goto(s, "create")
                /\ Remember(s, cache[s])
                /\ UNCHANGED staged
           ELSE LET id == CHOOSE j \in existing : TRUE
                IN  /\ Goto(s, "update_commit")
                    /\ Remember(s, Loaded(s, id))
                    /\ staged' = [staged EXCEPT ![s].id = id, ![s].snap = db[id]]
    /\ UNCHANGED <<db, nextId, dialect, mq, op, idx, pub, calls, wr>>

(***************************************************************************)
(* ProductService.adjust_stock, called directly or for a handler's entry.  *)
(***************************************************************************)
AdjustId(s) ==
    IF op[s].kind \in Batching THEN Entries(op[s])[idx[s]].product_id ELSE op[s].id

AdjustDelta(s) ==
    IF op[s].kind \in Batching THEN EntryDelta(op[s], idx[s]) ELSE op[s].delta

\* the reason str(e) carries when adjust_stock raises: the bare message,
\* which names no product
StockReason == NoReason

svc_adjust_stock(s) ==
    /\ pc[s] = "adjust"
    /\ LET id == AdjustId(s)
           delta == AdjustDelta(s)
       IN  IF ~get_product_found(s, id)
           THEN /\ Return(s, "NotFoundError")
                /\ UNCHANGED <<staged, pub, calls>>
           ELSE IF InsufficientStock(get_product(s, id).quantity, delta)
           THEN IF op[s].kind \in Reserving
                \* the handler catches it: db.rollback() and order.rejected
                THEN /\ \E sent \in PublishResults :
                           publish_message(s, Rejected(StockReason, Entries(op[s])), sent)
                     /\ Return(s, "ok")
                     /\ UNCHANGED staged
                ELSE /\ Return(s, "InsufficientStockError")
                     /\ UNCHANGED <<staged, pub, calls>>
           ELSE /\ staged' = [staged EXCEPT ![s] =
                        [id |-> id,
                         patch |-> [quantity |-> new_qty(get_product(s, id).quantity, delta)],
                         snap |-> get_product(s, id)]]
                /\ Goto(s, "update_commit")
                /\ UNCHANGED <<pub, calls>>
    /\ Remember(s, IF get_product_found(s, AdjustId(s)) THEN Loaded(s, AdjustId(s)) ELSE cache[s])
    /\ UNCHANGED <<db, nextId, dialect, mq, op, idx, wr>>

(***************************************************************************)
(* handle_order_created / handle_order_items_delta: the availability       *)
(* pre-check, one entry per step.                                          *)
(***************************************************************************)
\* no pre-check: every entry passes
Unavailable_never(available, needed) == FALSE

\* the comparison of the pre-check
Unavailable(available, needed) == available < needed

handler_check(s) ==
    /\ pc[s] = "check"
    /\ LET o == op[s]
           i == idx[s]
           id == Entries(o)[i].product_id
           last == i = Len(Entries(o))
       IN  IF EntryChecked(o, i) /\ ~get_product_found(s, id)
           THEN /\ Return(s, "NotFoundError")
                /\ Remember(s, NoRows)
                /\ UNCHANGED <<idx, pub, calls>>
           ELSE IF EntryChecked(o, i) /\ Unavailable(get_product(s, id).quantity, EntryNeeded(o, i))
           THEN /\ \E sent \in PublishResults :
                      publish_message(s,
                          Rejected([product_id |-> id, needed |-> EntryNeeded(o, i),
                                    available |-> get_product(s, id).quantity],
                                   Entries(o)), sent)
                /\ Return(s, "ok")
                /\ Remember(s, NoRows)
                /\ UNCHANGED idx
           ELSE /\ Goto(s, IF last THEN "adjust" ELSE "check")
                /\ idx' = [idx EXCEPT ![s] = IF last THEN 1 ELSE i + 1]
                \* product = svc.get(...): the object checked before is dropped,
                \* unless it is this one
                /\ Remember(s, IF EntryChecked(o, i) THEN id :> get_product(s, id)
                                ELSE cache[s])
                /\ UNCHANGED <<pub, calls>>
    /\ UNCHANGED <<db, nextId, dialect, mq, op, staged, wr>>

(***************************************************************************)
(* handle_order_ready_for_stock and handle_order_price_request, from the   *)
(* specification's handler table.  ready_for_stock makes the full dry-run  *)
(* availability check across all items before any write (an item naming a *)
(* product that does not exist fails it); when an item fails it publishes  *)
(* order.rejected and writes nothing, and when every item passes it        *)
(* decrements each item's quantity by adjust_stock and then publishes its  *)
(* follow-up event.  request_price reads the products of its items and     *)
(* publishes order.price_calculated.                                       *)
(***************************************************************************)
\* what the items before item i take of the product of item i in the dry run
RECURSIVE TakenBefore(_, _, _)
TakenBefore(items, i, k) ==
    IF k = 0 THEN 0
    ELSE TakenBefore(items, i, k - 1)
         + (IF items[k].product_id = items[i].product_id THEN items[k].quantity ELSE 0)

\* what the dry run finds left of the product of item i (0 for no product)
DryRunAvailable(d, items, i) ==
    IF items[i].product_id \in DOMAIN d
    THEN d[items[i].product_id].quantity - TakenBefore(items, i, i - 1)
    ELSE 0

handler_dry_run(s) ==
    /\ pc[s] = "dry_run"
    /\ LET o == op[s]
           i == idx[s]
           it == o.items[i]
           available == DryRunAvailable(db, o.items, i)
           last == i = Len(o.items)
       IN  IF it.product_id \notin DOMAIN db \/ Unavailable(available, it.quantity)
           THEN /\ \E sent \in PublishResults :
                      publish_message(s,
                          Rejected([product_id |-> it.product_id, needed |-> it.quantity,
                                    available |-> available], o.items), sent)
                /\ Return(s, "ok")
                /\ UNCHANGED idx
           ELSE /\ Goto(s, IF last THEN "adjust" ELSE "dry_run")
                /\ idx' = [idx EXCEPT ![s] = IF last THEN 1 ELSE i + 1]
                /\ UNCHANGED <<pub, calls>>
    /\ Remember(s, NoRows)
    /\ UNCHANGED <<db, nextId, dialect, mq, op, staged, wr>>

handler_follow_up(s) ==
    /\ pc[s] = "follow_up"
    /\ \E sent \in PublishResults : publish_message(s, Event("order.confirmed", 0), sent)
    /\ Return(s, "ok")
    /\ Remember(s, NoRows)
    /\ UNCHANGED <<db, nextId, dialect, mq, op, idx, staged, wr>>

handler_price_request(s) ==
    /\ pc[s] = "price"
    /\ IF \A k \in 1..Len(op[s].items) : op[s].items[k].product_id \in DOMAIN db
       THEN /\ \E sent \in PublishResults :
                  publish_message(s, Event("order.price_calculated", 0), sent)
            /\ Return(s, "ok")
       ELSE /\ Return(s, "NotFoundError")
            /\ UNCHANGED <<pub, calls>>
    /\ Remember(s, NoRows)
    /\ UNCHANGED <<db, nextId, dialect, mq, op, idx, staged, wr>>

(***************************************************************************)
(* The HTTP routes (api/routes/product.py): the status a route answers     *)
(* with, by the exceptions its try / except names; any other exception     *)
(* leaves the route and the server answers 500.  upsert_by_sku has no      *)
(* route.                                                                  *)
(***************************************************************************)
http_status(kind, result) ==
    CASE result = "ok" -> IF kind = "create" THEN 201 ELSE 200
      [] result = "NotFoundError" /\ kind \in {"update", "delete", "adjust_stock", "set_active"}
            -> 404
      [] result = "SKUAlreadyExistsError" /\ kind \in {"create", "update"} -> 409
      [] result = "ConcurrencyConflictError" /\ kind = "update" -> 409
      [] result = "InsufficientStockError" /\ kind = "adjust_stock" -> 409
      [] OTHER -> 500

\* the calls that are requests to a route
Routes == {"create", "update", "delete", "adjust_stock", "set_active"}

\* the steps of the calls made over HTTP
ServiceStep(s) ==
    \/ ServiceCall(s)
    \/ svc_create(s)
    \/ repo_create_product(s)
    \/ svc_create_publish(s)
    \/ svc_update(s)
    \/ repo_update_product(s)
    \/ svc_update_publish(s)
    \/ svc_set_active_publish(s)
    \/ svc_delete(s)
    \/ repo_delete_product(s)
    \/ svc_delete_publish(s)
    \/ svc_upsert_by_sku(s)
    \/ svc_adjust_stock(s)

Step(s) ==
    \/ ServiceStep(s)
    \/ HandlerCall(s)
    \/ handler_check(s)

Next == \E s \in Sessions : Step(s)

Spec == Init /\ [][Next]_vars

\* the service calls alone, with a broker that may be up, down or flaky
NextMq == \E s \in Sessions : ServiceStep(s)

SpecMq == InitMq /\ [][NextMq]_vars

\* the consumer alone: messages taken from the queue, dispatched by
\* consumer_handler and handled one after the other
ConsumerStep(s) ==
    \/ Deliver(s)
    \/ handler_check(s)
    \/ handler_dry_run(s)
    \/ svc_adjust_stock(s)
    \/ repo_update_product(s)
    \/ svc_update_publish(s)
    \/ handler_follow_up(s)
    \/ handler_price_request(s)

NextConsumer == \E s \in Sessions : ConsumerStep(s)

SpecConsumer == Init /\ [][NextConsumer]_vars

\* the consumer task keeps running: the broker hands over the next message
\* and every database and broker call of a handler returns
SpecConsumerFair == SpecConsumer /\ \A s \in Sessions : WF_vars(ConsumerStep(s))

(***************************************************************************)
(* Properties.                                                             *)
(***************************************************************************)
UpdateKinds == {"update", "set_active", "adjust_stock", "upsert_by_sku"}

Done(s) == pc[s] = "done"

\* session s takes the step
Moved(s) == pc'[s] # pc[s] \/ idx'[s] # idx[s]

Rejections(s) == Cardinality({k \in 1..Len(pub[s]) : pub[s][k].rk = "order.rejected"})

Publishes(s, rk) == \E k \in 1..Len(pub[s]) : pub[s][k].rk = rk

\* the positions of the entries whose stock delta is not 0, in order (an
\* adjustment by 0 is no write)
NonZero(o) ==
    SelectSeq([k \in 1..Len(Entries(o)) |-> k], LAMBDA k : EntryDelta(o, k) # 0)

\* every entry of the handler's list was applied, in order, by its own delta
AllApplied(s) ==
    /\ Len(wr[s]) = Len(NonZero(op[s]))
    /\ \A j \in 1..Len(wr[s]) :
          /\ wr[s][j].id = Entries(op[s])[NonZero(op[s])[j]].product_id
          /\ wr[s][j].after.quantity =
                wr[s][j].before.quantity + EntryDelta(op[s], NonZero(op[s])[j])

\* C1: every persisted product has quantity >= 0, and no write handed to the
\* store carries a negative quantity (never written negative), under every
\* interleaving of the service calls and the order event handlers.
C1_QuantityNeverNegative ==
    /\ \A i \in DOMAIN db : db[i].quantity >= 0
    /\ \A s \in Sessions :
          (pc[s] = "update_commit" /\ "quantity" \in DOMAIN staged[s].patch)
              => staged[s].patch.quantity >= 0

\* C1 witness: one call took the last unit of a product and another call on
\* the emptied product was refused.
C1_Witness ==
    \E s, t \in Sessions :
        /\ s # t
        /\ outcome[t] = "InsufficientStockError"
        /\ \E k \in 1..Len(wr[s]) :
              /\ wr[s][k].id = op[t].id
              /\ wr[s][k].before.quantity > 0
              /\ wr[s][k].after.quantity = 0
        /\ db[op[t].id].quantity = 0

\* C2 (as claimed): every update call that returns successfully and published
\* product.updated has advanced the persisted version by exactly 1.
C2_UpdateAdvancesVersion ==
    \A s \in Sessions :
        (Done(s) /\ outcome[s] = "ok" /\ op[s].kind \in UpdateKinds
                 /\ Publishes(s, "product.updated"))
            => \E k \in 1..Len(wr[s]) :
                  /\ wr[s][k].kind = "update"
                  /\ wr[s][k].after.version = wr[s][k].before.version + 1

\* the call of s handed a changing write for the object it loaded to the store
Attempted(s) ==
    /\ op[s].kind \in UpdateKinds
    /\ pc[s] \in {"update_publish", "set_active_publish", "done"}
    /\ staged[s].snap # NoProduct
    /\ \E f \in DOMAIN staged[s].patch : staged[s].patch[f] # staged[s].snap[f]

Committed(s) ==
    \E k \in 1..Len(wr[s]) :
        /\ wr[s][k].kind = "update"
        /\ wr[s][k].id = staged[s].id
        /\ wr[s][k].vread = staged[s].snap.version

\* C3: when two sessions read the same product at the same version and both
\* hand a changing write to the store, at most one write commits; the other
\* call fails with ConcurrencyConflictError (or, for a sku patch refused by the
\* unique constraint, SKUAlreadyExistsError), persists nothing and publishes
\* nothing; and a committed write overwrote exactly the version it had read.
C3_NoLostUpdate ==
    /\ \A s \in Sessions : \A k \in 1..Len(wr[s]) :
          wr[s][k].kind = "update"
              => /\ wr[s][k].before.version = wr[s][k].vread
                 /\ wr[s][k].after.version = wr[s][k].vread + 1
    /\ \A s, t \in Sessions :
          (/\ s # t
           /\ Attempted(s) /\ Attempted(t)
           /\ staged[s].id = staged[t].id
           /\ staged[s].snap.version = staged[t].snap.version
           /\ Committed(s))
              => /\ ~Committed(t)
                 /\ Done(t)
                 /\ outcome[t] \in {"ConcurrencyConflictError", "SKUAlreadyExistsError"}
                 /\ outcome[t] = "SKUAlreadyExistsError" => "sku" \in DOMAIN staged[t].patch
                 /\ wr[t] = <<>>
                 /\ pub[t] = <<>>

\* C3 witness: two update calls asserted the same expected version, both
\* passed the pre-check on the same loaded version, one committed and the
\* other failed with ConcurrencyConflictError.
C3_Witness ==
    \E s, t \in Sessions :
        /\ s # t
        /\ op[s].kind = "update" /\ op[t].kind = "update"
        /\ op[s].id = op[t].id
        /\ op[s].ev # None /\ op[s].ev = op[t].ev
        /\ staged[s].snap.version \in op[s].ev
        /\ staged[t].snap.version \in op[t].ev
        /\ Attempted(s) /\ Attempted(t) /\ Committed(s)
        /\ Done(t) /\ outcome[t] = "ConcurrencyConflictError"
        /\ db[op[s].id] = ApplyPatch([staged[s].snap EXCEPT !.version = @ + 1], staged[s].patch)

\* C4 (as claimed): a finished order.created either committed every item's
\* decrement and published no order.rejected, or published exactly one
\* order.rejected and changed no product quantity.
C4_OrderCreatedAllOrNothing ==
    \A s \in Sessions :
        (Done(s) /\ op[s].kind = "order_created")
            => \/ AllApplied(s) /\ Rejections(s) = 0
               \/ Rejections(s) = 1 /\ wr[s] = <<>>

\* C5 (as claimed): when an item of an order.created requests more than the
\* quantity its product has while the handler makes its pre-check (no other
\* session is at work, so that quantity is the stored one), the handler writes
\* nothing and publishes exactly one event, the order.rejected carrying the
\* cleaned items, and no product.updated.
C5_PreCheckRejects ==
    \A s \in Sessions :
        (/\ Done(s) /\ op[s].kind = "order_created"
         /\ \A t \in Sessions \ {s} : op[t].kind = "none"
         /\ \E k \in 1..Len(op[s].items) :
               /\ op[s].items[k].product_id \in InitIds
               /\ op[s].items[k].quantity > InitQty(op[s].items[k].product_id))
            => /\ wr[s] = <<>>
               /\ calls[s] = pub[s]
               /\ Len(pub[s]) = 1
               /\ pub[s][1].rk = "order.rejected"
               /\ pub[s][1].entries = op[s].items

\* C6: update with an expected version that differs from the persisted one
\* raises ConcurrencyConflictError before any write (no row changed, nothing
\* published); with an equal or no expected version it goes on to the write.
C6_ExpectedVersionPreCheck ==
    [][\A s \in Sessions :
          (/\ pc[s] = "update" /\ op[s].kind = "update" /\ Moved(s)
           /\ op[s].id \in DOMAIN db)
              => IF op[s].ev # None /\ db[op[s].id].version \notin op[s].ev
                 THEN /\ pc'[s] = "done" /\ outcome'[s] = "ConcurrencyConflictError"
                      /\ db' = db
                      /\ wr'[s] = <<>> /\ pub'[s] = <<>> /\ calls'[s] = <<>>
                 ELSE pc'[s] = "update_commit" /\ outcome'[s] = "none"]_vars

\* C6 witness: an update asserting a version the product had left behind
\* ended in ConcurrencyConflictError with nothing written or published.
C6_Witness ==
    \E s \in Sessions :
        /\ Done(s) /\ op[s].kind = "update" /\ op[s].ev # None
        /\ outcome[s] = "ConcurrencyConflictError"
        /\ staged[s].snap # NoProduct
        /\ staged[s].snap.version \notin op[s].ev
        /\ op[s].id \in DOMAIN db /\ db[op[s].id].version \notin op[s].ev
        /\ wr[s] = <<>> /\ pub[s] = <<>>

\* C7: adjust_stock(id, delta) on a product whose quantity q has q + delta < 0
\* raises InsufficientStockError, changes no row and publishes nothing.
C7_AdjustStockInsufficient ==
    [][\A s \in Sessions :
          (/\ pc[s] = "adjust" /\ op[s].kind = "adjust_stock" /\ Moved(s)
           /\ op[s].id \in DOMAIN db
           /\ db[op[s].id].quantity + op[s].delta < 0)
              => /\ pc'[s] = "done" /\ outcome'[s] = "InsufficientStockError"
                 /\ db' = db
                 /\ wr'[s] = <<>> /\ pub'[s] = <<>> /\ calls'[s] = <<>>]_vars

\* C7 witness: an adjust_stock below zero was refused and the product kept
\* its quantity.
C7_Witness ==
    \E s \in Sessions :
        /\ Done(s) /\ op[s].kind = "adjust_stock"
        /\ outcome[s] = "InsufficientStockError"
        /\ op[s].id \in DOMAIN db
        /\ db[op[s].id].quantity + op[s].delta < 0
        /\ wr[s] = <<>> /\ pub[s] = <<>>

\* C8 (as claimed): a finished order.items_delta either applied every delta
\* and published no order.rejected, or published exactly one order.rejected
\* (carrying the delta list) and changed no product quantity.
C8_ItemsDeltaAllOrNothing ==
    \A s \in Sessions :
        (Done(s) /\ op[s].kind = "order_items_delta")
            => \/ AllApplied(s) /\ Rejections(s) = 0
               \/ /\ Rejections(s) = 1 /\ wr[s] = <<>>
                  /\ \A k \in 1..Len(pub[s]) :
                        pub[s][k].rk = "order.rejected" => pub[s][k].entries = op[s].deltas

ExpectedEvents(o) ==
    CASE o.kind = "create" -> {"product.created"}
      [] o.kind = "delete" -> {"product.deleted"}
      [] o.kind = "set_active" ->
            {"product.updated", IF o.is_active THEN "product.activated" ELSE "product.deactivated"}
      [] OTHER -> {"product.updated"}

\* C9 (as claimed): a finished create, update, delete, adjust_stock or
\* set_active either succeeded with its events published, or failed with
\* nothing persisted and nothing published, whatever the publisher does.
C9_PersistAndPublishAtomic ==
    \A s \in Sessions :
        (Done(s) /\ op[s].kind \in {"create", "update", "delete", "adjust_stock", "set_active"})
            => \/ /\ outcome[s] = "ok"
                  /\ \A rk \in ExpectedEvents(op[s]) : Publishes(s, rk)
               \/ /\ outcome[s] # "ok"
                  /\ wr[s] = <<>>
                  /\ pub[s] = <<>>

\* product id i has a row, or had one at some time
EverExisted(i) ==
    \/ i \in InitIds
    \/ \E t \in Sessions : \E k \in 1..Len(wr[t]) :
          wr[t][k].kind = "insert" /\ wr[t][k].id = i

\* C10 (as claimed): a finished reservation event (order.created, or
\* order.items_delta with a positive delta) that names a product id which
\* never existed changed no quantity and published exactly one order.rejected.
C10_MissingProductRejected ==
    \A s \in Sessions :
        (/\ Done(s) /\ op[s].kind \in Reserving
         /\ \E k \in 1..Len(Entries(op[s])) :
               /\ EntryChecked(op[s], k)
               /\ ~EverExisted(Entries(op[s])[k].product_id))
            => wr[s] = <<>> /\ Rejections(s) = 1

\* C11 (as claimed): a finished order.created or order.items_delta whose
\* adjust_stock failed with ConcurrencyConflictError left no quantity change
\* of the event persisted and published exactly one order.rejected.
C11_ConflictAbortsAndRejects ==
    \A s \in Sessions :
        (Done(s) /\ op[s].kind \in Reserving /\ outcome[s] = "ConcurrencyConflictError")
            => wr[s] = <<>> /\ Rejections(s) = 1

\* C12 (as claimed): a message whose handler returned normally is acked, and
\* a message whose handler raised is nacked (rejected), never acked.
C12_AckFollowsHandler ==
    \A s \in Sessions :
        (Done(s) /\ op[s].kind \in Handlers)
            => ack[s] = IF outcome[s] = "ok" THEN "acked" ELSE "rejected"

\* C13 (as claimed): an order.cancelled or order.deleted whose handler raised
\* part-way through its batch persisted none of its adjustments.
C13_NoPartialBatch ==
    \A s \in Sessions :
        (Done(s) /\ op[s].kind \in {"order_cancelled", "order_deleted"} /\ outcome[s] # "ok")
            => wr[s] = <<>>

\* C14 (as claimed): the second delivery of the same order event changes no
\* product quantity.
C14_RedeliveryIdempotent ==
    \A t \in Sessions \ {Consumer} :
        (Done(Consumer) /\ Done(t) /\ op[t].kind \in Handlers /\ op[t] = op[Consumer])
            => \A k \in 1..Len(wr[t]) : wr[t][k].after.quantity = wr[t][k].before.quantity

\* what the list asks of product p in total
RECURSIVE Requested(_, _)
Requested(items, p) ==
    IF items = <<>> THEN 0
    ELSE (IF Head(items).product_id = p THEN Head(items).quantity ELSE 0)
         + Requested(Tail(items), p)

\* C15 (as claimed): when order.created and then order.cancelled are handled
\* with the same items, and every item names a product that holds at least
\* the item's quantity, every product has afterwards the quantity it had
\* before the order.created.
C15_ReserveCancelRoundTrip ==
    \A t \in Sessions \ {Consumer} :
        (/\ Done(Consumer) /\ Done(t)
         /\ op[Consumer].kind = "order_created" /\ op[t].kind = "order_cancelled"
         /\ op[t].items = op[Consumer].items
         /\ \A k \in 1..Len(op[t].items) :
               /\ op[t].items[k].product_id \in InitIds
               /\ op[t].items[k].quantity <= InitQty(op[t].items[k].product_id))
            => \A p \in InitIds : p \in DOMAIN db /\ db[p].quantity = InitQty(p)

\* C16: once adjust_stock(id, d) with d # 0 has succeeded on a product with
\* quantity q and version v, a following adjust_stock(id, -d) with no other
\* writer in between is accepted, writes quantity q and version v + 2, and
\* succeeds.
C16_AdjustRoundTrip ==
    [][\A s, t \in Sessions :
          (/\ s # t /\ Done(s) /\ outcome[s] = "ok"
           /\ op[s].kind = "adjust_stock" /\ op[s].delta # 0
           /\ op[t].kind = "adjust_stock" /\ op[t].id = op[s].id
           /\ op[t].delta = -(op[s].delta)
           /\ Moved(t))
              => /\ Len(wr[s]) = 1
                 /\ LET first == wr[s][1]
                        q == first.before.quantity
                        v == first.before.version
                    IN  /\ first.after.quantity = q + op[s].delta
                        /\ first.after.version = v + 1
                        /\ pc[t] = "adjust"
                              => /\ pc'[t] = "update_commit"
                                 /\ staged'[t].snap = first.after
                                 /\ staged'[t].patch = [quantity |-> q]
                        /\ (pc[t] = "update_commit" /\ staged[t].snap = first.after)
                              => /\ pc'[t] = "update_publish"
                                 /\ db'[op[t].id].quantity = q
                                 /\ db'[op[t].id].version = v + 2
                        /\ (pc[t] = "update_publish" /\ staged[t].snap = first.after)
                              => /\ outcome'[t] = "ok"
                                 /\ db' = db]_vars

\* C16 witness: adjust_stock(id, d) and then adjust_stock(id, -d) both
\* succeeded; the product has its first quantity again, two versions later.
C16_Witness ==
    \E s, t \in Sessions :
        /\ s # t /\ Done(s) /\ Done(t)
        /\ op[s].kind = "adjust_stock" /\ op[t].kind = "adjust_stock"
        /\ op[s].id = op[t].id /\ op[s].delta # 0 /\ op[t].delta = -(op[s].delta)
        /\ outcome[s] = "ok" /\ outcome[t] = "ok"
        /\ Len(wr[s]) = 1 /\ Len(wr[t]) = 1
        /\ wr[t][1].before = wr[s][1].after
        /\ db[op[s].id].quantity = wr[s][1].before.quantity
        /\ db[op[s].id].version = wr[s][1].before.version + 2

\* C17 (as claimed): an accepted adjust_stock(id, 0) writes nothing and makes
\* no publish call.
C17_ZeroDeltaNoOp ==
    \A s \in Sessions :
        (Done(s) /\ op[s].kind = "adjust_stock" /\ op[s].delta = 0 /\ outcome[s] = "ok")
            => wr[s] = <<>> /\ calls[s] = <<>>

\* the payload's list is missing, not a list, or holds only entries that the
\* cleaning drops: entries that do not convert, negative quantities (items),
\* deltas of 0 (deltas)
OnlyDropped(o) ==
    \/ o.raw.shape # "list"
    \/ \A k \in 1..Len(o.raw.list) :
          \/ ~o.raw.list[k].ok
          \/ IF o.kind = "order_items_delta" THEN o.raw.list[k].n = 0
             ELSE o.raw.list[k].n < 0

\* C18: an order.created, order.items_delta, order.cancelled or order.deleted
\* whose list is empty after the cleaning returns at once: no product loaded,
\* no adjust_stock, no write, no publish call; the handler succeeds.
C18_EmptyListNoOp ==
    \A s \in Sessions :
        (pc[s] # "idle" /\ op[s].kind \in Handlers /\ OnlyDropped(op[s]))
            => /\ Entries(op[s]) = <<>>
               /\ Done(s) /\ outcome[s] = "ok"
               /\ wr[s] = <<>> /\ calls[s] = <<>> /\ pub[s] = <<>>
               /\ cache[s] = NoRows
               /\ staged[s].snap = NoProduct

\* C18 witness: an order.items_delta whose deltas were an entry that does not
\* convert and a delta of 0 was handled with no write and no event.
C18_Witness ==
    \E s \in Sessions :
        /\ Done(s) /\ op[s].kind = "order_items_delta"
        /\ op[s].raw = RawList("list", <<RawEntry(FALSE, 0, 0), RawEntry(TRUE, 1, 0)>>)
        /\ op[s].deltas = <<>>
        /\ outcome[s] = "ok" /\ wr[s] = <<>> /\ calls[s] = <<>>
        /\ db[1] = Product(InitSku(1), InitQty(1), TRUE, 1)

Unique == \A i, j \in DOMAIN db : i # j => db[i].sku # db[j].sku

\* the write the session is about to flush would give a second product the sku
WouldDuplicate(s) ==
    \/ pc[s] = "create_commit" /\ get_by_sku(db, op[s].patch.sku) # {}
    \/ /\ pc[s] = "update_commit"
       /\ "sku" \in DOMAIN staged[s].patch
       /\ staged[s].id \in DOMAIN cache[s]
       /\ staged[s].patch.sku # cache[s][staged[s].id].sku
       /\ VersionMatches(db, staged[s].id, cache[s][staged[s].id])
       /\ get_by_sku(db, staged[s].patch.sku) \ {staged[s].id} # {}

\* C19: no two persisted products ever have the same sku, under every
\* interleaving of create, upsert_by_sku and sku-changing update; the write
\* that would introduce a duplicate fails with SKUAlreadyExistsError, changes
\* no row and publishes nothing.
C19_SkuUnique ==
    /\ []Unique
    /\ [][\A s \in Sessions :
             (WouldDuplicate(s) /\ Moved(s))
                 => /\ pc'[s] = "done" /\ outcome'[s] = "SKUAlreadyExistsError"
                    /\ db' = db
                    /\ wr'[s] = wr[s] /\ pub'[s] = pub[s] /\ calls'[s] = calls[s]]_vars

\* C19 witness: two creates of the same new sku both passed the get_by_sku
\* pre-check and both reached the INSERT; one row has the sku and the other
\* create failed with SKUAlreadyExistsError.
C19_Witness ==
    \E s, t \in Sessions :
        /\ s # t /\ Done(s) /\ Done(t)
        /\ op[s].kind = "create" /\ op[t].kind = "create"
        /\ op[s].patch.sku = op[t].patch.sku
        /\ outcome[s] = "ok" /\ outcome[t] = "SKUAlreadyExistsError"
        /\ nextId = Cardinality(InitIds) + 3
        /\ Cardinality(get_by_sku(db, op[s].patch.sku)) = 1
        /\ wr[t] = <<>> /\ pub[t] = <<>>

\* the positions of the items of a list whose quantity is not 0, in order
Positive(items) ==
    SelectSeq([k \in 1..Len(items) |-> k], LAMBDA k : items[k].quantity # 0)

\* C20 (as claimed): once handle_order_cancelled has run (no other session is
\* at work), adjust_stock(product_id, +quantity) has been applied once for
\* every cleaned item: every product holds its quantity plus what the items
\* of the list give back to it, and no order.rejected is published.
C20_CancelledRestoresEach ==
    \A s \in Sessions :
        (/\ Done(s) /\ op[s].kind = "order_cancelled"
         /\ \A t \in Sessions \ {s} : op[t].kind = "none")
            => /\ Rejections(s) = 0
               /\ \A p \in InitIds :
                     /\ p \in DOMAIN db
                     /\ db[p].quantity = InitQty(p) + Requested(op[s].items, p)

\* C21 (as claimed): an order.deleted whose status is anything but the
\* string "rejected" restores every item: a completed one has a write for
\* every item of quantity > 0.
C21_RestoresUnlessRejected ==
    \A s \in Sessions :
        (/\ Done(s) /\ op[s].kind = "order_deleted" /\ outcome[s] = "ok"
         /\ op[s].status # "rejected")
            => Len(wr[s]) = Len(Positive(op[s].items))

\* C21 (amended): handle_order_deleted compares the status in lower case:
\* when it is "rejected" in any letter case the handler makes no adjust_stock
\* call and changes nothing; for every other status, a missing one included,
\* its writes are +quantity per item in order, as order.cancelled's are, and
\* when it completes adjust_stock has succeeded once per cleaned item.
C21_DeletedBranchesOnStatus ==
    \A s \in Sessions :
        op[s].kind = "order_deleted"
            => LET items == op[s].items
                   pos == Positive(items)
               IN  IF op[s].status \in {"rejected", "REJECTED"}
                   THEN /\ Done(s) /\ outcome[s] = "ok"
                        /\ wr[s] = <<>> /\ calls[s] = <<>>
                        /\ staged[s].snap = NoProduct
                   ELSE /\ pc[s] # "check"
                        /\ Rejections(s) = 0
                        /\ Len(wr[s]) <= Len(pos)
                        /\ \A j \in 1..Len(wr[s]) :
                              /\ wr[s][j].id = items[pos[j]].product_id
                              /\ wr[s][j].after.quantity =
                                    wr[s][j].before.quantity + items[pos[j]].quantity
                        /\ (Done(s) /\ outcome[s] = "ok")
                              => /\ Len(wr[s]) = Len(pos)
                                 /\ calls[s] = [k \in 1..Len(items) |->
                                                  Event("product.updated", items[k].product_id)]

\* C21 witness: the same items came with order.deleted twice, first without
\* a status, which restored the unit of product 1, then with the status
\* "REJECTED", which changed nothing.
C21_Witness ==
    \E t \in Sessions \ {Consumer} :
        /\ Done(Consumer) /\ Done(t)
        /\ op[Consumer].kind = "order_deleted" /\ op[t].kind = "order_deleted"
        /\ op[Consumer].status = "" /\ op[t].status = "REJECTED"
        /\ op[t].items = op[Consumer].items
        /\ op[t].items = <<Item(1, 1)>>
        /\ Len(wr[Consumer]) = 1 /\ wr[t] = <<>>
        /\ db[1].quantity = InitQty(1) + 1

\* C22: create with a sku no product has inserts a row of version 1 and
\* publishes exactly one product.created for it; create with a sku that a
\* product has raises SKUAlreadyExistsError, writes nothing and publishes
\* nothing.  (A create whose row another session deletes before the refresh
\* ends with InvalidRequestError after its insert.)
C22_Create ==
    /\ [](\A s \in Sessions :
            (Done(s) /\ op[s].kind = "create")
                => \/ /\ outcome[s] = "ok"
                      /\ Len(wr[s]) = 1
                      /\ wr[s][1].kind = "insert"
                      /\ wr[s][1].after = Product(op[s].patch.sku, op[s].patch.quantity,
                                                  op[s].patch.is_active, 1)
                      /\ pub[s] = <<Event("product.created", wr[s][1].id)>>
                   \/ /\ outcome[s] = "SKUAlreadyExistsError"
                      /\ wr[s] = <<>> /\ pub[s] = <<>> /\ calls[s] = <<>>
                   \/ /\ outcome[s] = "InvalidRequestError"
                      /\ Len(wr[s]) = 1 /\ pub[s] = <<>>
                      /\ \E t \in Sessions \ {s} : \E k \in 1..Len(wr[t]) :
                            wr[t][k].kind = "delete" /\ wr[t][k].id = wr[s][1].id)
    /\ [][\A s \in Sessions :
            (op[s].kind = "create" /\ Moved(s))
                => LET sku == op[s].patch.sku
                       taken == \E j \in DOMAIN db : db[j].sku = sku
                   IN  /\ (pc[s] \in {"create", "create_commit"} /\ taken)
                            => /\ outcome'[s] = "SKUAlreadyExistsError"
                               /\ db' = db /\ pub'[s] = <<>>
                       /\ (pc[s] = "create" /\ ~taken) => pc'[s] = "create_commit"
                       /\ (pc[s] = "create_commit" /\ ~taken)
                            => /\ DOMAIN db' = DOMAIN db \cup {NewId(db)}
                               /\ NewId(db) \notin DOMAIN db
                               /\ db'[NewId(db)].sku = sku /\ db'[NewId(db)].version = 1
                               /\ \A j \in DOMAIN db : db'[j] = db[j]]_vars

\* C22 witness: one create added product 3 with sku "C" at version 1 and
\* published product.created for it; another create, of sku "A", was refused
C22_Witness ==
    \E s, t \in Sessions :
        /\ Done(s) /\ op[s].kind = "create" /\ outcome[s] = "ok"
        /\ op[s].patch.sku = "C"
        /\ 3 \in DOMAIN db /\ db[3].sku = "C" /\ db[3].version = 1
        /\ pub[s] = <<Event("product.created", 3)>>
        /\ Done(t) /\ op[t].kind = "create" /\ op[t].patch.sku = "A"
        /\ outcome[t] = "SKUAlreadyExistsError" /\ wr[t] = <<>> /\ pub[t] = <<>>

\* C23 (as claimed): delete of an existing product that no other session
\* changes meanwhile removes the row and publishes exactly one
\* product.deleted, and from then on the id has no row, so that get, update,
\* set_active and adjust_stock on it raise NotFoundError; delete of an absent
\* id raises NotFoundError, changes nothing and publishes nothing.
C23_Delete ==
    /\ [](\A s \in Sessions :
            (Done(s) /\ op[s].kind = "delete")
                => \/ /\ outcome[s] = "ok"
                      /\ Len(wr[s]) = 1
                      /\ wr[s][1].kind = "delete" /\ wr[s][1].id = op[s].id
                      /\ pub[s] = <<Event("product.deleted", op[s].id)>>
                      /\ op[s].id \notin DOMAIN db
                   \/ /\ outcome[s] \in {"NotFoundError", "StaleDataError"}
                      /\ wr[s] = <<>> /\ pub[s] = <<>> /\ calls[s] = <<>>)
    /\ [][\A s \in Sessions :
            Moved(s)
                => /\ (pc[s] = "delete" /\ op[s].id \notin DOMAIN db)
                        => /\ outcome'[s] = "NotFoundError"
                           /\ db' = db /\ pub' = pub
                   /\ (pc[s] = "delete" /\ op[s].id \in DOMAIN db)
                        => pc'[s] = "delete_commit"
                   /\ (pc[s] = "delete_commit" /\ op[s].id \in DOMAIN db
                         /\ db[op[s].id] = cache[s][op[s].id])
                        => /\ pc'[s] = "delete_publish"
                           /\ DOMAIN db' = DOMAIN db \ {op[s].id}
                           /\ \A j \in DOMAIN db' : db'[j] = db[j]
                   /\ pc[s] = "delete_publish"
                        => outcome'[s] = "ok" /\ db' = db
                   /\ (/\ op[s].kind \in {"update", "set_active", "adjust_stock"}
                       /\ pc[s] \in {"update", "adjust"}
                       /\ op[s].id \notin DOMAIN db)
                        => /\ outcome'[s] = "NotFoundError"
                           /\ db' = db /\ pub' = pub]_vars

\* C24: set_active(id, flag) on an existing product leaves the row with
\* is_active = flag (by an UPDATE of that one field, or by none when the row
\* it loaded already had the flag) and then publishes product.updated followed
\* by product.activated when flag is true and product.deactivated when it is
\* false, never the other one; on an absent id it raises NotFoundError,
\* writes nothing and publishes nothing.
C24_SetActive ==
    /\ [](\A s \in Sessions :
            (Done(s) /\ op[s].kind = "set_active")
                => LET id == op[s].id
                       flag == op[s].is_active
                   IN  \/ /\ outcome[s] = "ok"
                          /\ pub[s] = <<Event("product.updated", id),
                                        Event(IF flag THEN "product.activated"
                                              ELSE "product.deactivated", id)>>
                          /\ Len(wr[s]) <= 1
                          /\ wr[s] = <<>> => staged[s].snap.is_active = flag
                          /\ Len(wr[s]) = 1
                               => /\ wr[s][1].kind = "update" /\ wr[s][1].id = id
                                  /\ wr[s][1].after =
                                        [wr[s][1].before EXCEPT !.is_active = flag,
                                                                !.version = @ + 1]
                       \/ /\ outcome[s] \in {"NotFoundError", "ConcurrencyConflictError"}
                          /\ wr[s] = <<>> /\ pub[s] = <<>> /\ calls[s] = <<>>
                       \/ /\ outcome[s] = "InvalidRequestError"
                          /\ id \notin DOMAIN db /\ pub[s] = <<>>)
    /\ [][\A s \in Sessions :
            (op[s].kind = "set_active" /\ Moved(s))
                => LET id == op[s].id
                   IN  /\ (pc[s] = "update" /\ id \notin DOMAIN db)
                            => /\ outcome'[s] = "NotFoundError"
                               /\ db' = db /\ pub' = pub
                       /\ (pc[s] = "update" /\ id \in DOMAIN db)
                            => pc'[s] = "update_commit"
                       /\ (pc[s] = "update_commit" /\ id \in DOMAIN db
                             /\ db[id] = cache[s][id])
                            => /\ pc'[s] = "update_publish"
                               /\ db'[id].is_active = op[s].is_active
                               /\ \A j \in DOMAIN db \ {id} : db'[j] = db[j]]_vars

\* C24 witness: product 1 was deactivated (product.updated, then
\* product.deactivated) and activated again by a later call (product.updated,
\* then product.activated); it is active, at version 3
C24_Witness ==
    \E s, t \in Sessions :
        /\ Done(s) /\ op[s].kind = "set_active" /\ op[s].id = 1 /\ ~op[s].is_active
        /\ outcome[s] = "ok" /\ Len(wr[s]) = 1
        /\ pub[s] = <<Event("product.updated", 1), Event("product.deactivated", 1)>>
        /\ Done(t) /\ op[t].kind = "set_active" /\ op[t].id = 1 /\ op[t].is_active
        /\ outcome[t] = "ok" /\ Len(wr[t]) = 1
        /\ pub[t] = <<Event("product.updated", 1), Event("product.activated", 1)>>
        /\ db[1].is_active /\ db[1].version = 3

\* C25: upsert_by_sku(data) goes to create when no product has data.sku and
\* otherwise to update of the product that has it: its UPDATE adds no row,
\* takes no new id and leaves exactly that product with the sku, its INSERT
\* leaves exactly the new product with the sku, and an upsert that found its
\* product already equal to data writes nothing.
C25_UpsertBySku ==
    /\ [](\A s \in Sessions :
            (Done(s) /\ op[s].kind = "upsert_by_sku" /\ outcome[s] = "ok")
                => LET d == op[s].patch
                   IN  /\ Len(wr[s]) <= 1
                       /\ wr[s] = <<>>
                            => /\ staged[s].snap.sku = d.sku
                               /\ pub[s] = <<Event("product.updated", staged[s].id)>>
                       /\ Len(wr[s]) = 1
                            => /\ wr[s][1].after.sku = d.sku
                               /\ wr[s][1].after.quantity = d.quantity
                               /\ wr[s][1].after.is_active = d.is_active
                               /\ IF wr[s][1].kind = "insert"
                                  THEN pub[s] = <<Event("product.created", wr[s][1].id)>>
                                  ELSE /\ wr[s][1].kind = "update"
                                       /\ wr[s][1].before.sku = d.sku
                                       /\ pub[s] = <<Event("product.updated", wr[s][1].id)>>)
    /\ [][\A s \in Sessions :
            (op[s].kind = "upsert_by_sku" /\ Moved(s))
                => LET sku == op[s].patch.sku
                       existing == {j \in DOMAIN db : db[j].sku = sku}
                   IN  /\ (pc[s] = "upsert" /\ existing = {})
                            => pc'[s] = "create" /\ db' = db
                       /\ (pc[s] = "upsert" /\ existing # {})
                            => /\ pc'[s] = "update_commit"
                               /\ existing = {staged'[s].id}
                               /\ db' = db
                       /\ (pc[s] = "update_commit" /\ wr'[s] # wr[s])
                            => /\ DOMAIN db' = DOMAIN db /\ nextId' = nextId
                               /\ {j \in DOMAIN db' : db'[j].sku = sku} = {staged[s].id}
                       /\ (pc[s] = "create_commit" /\ wr'[s] # wr[s])
                            => /\ NewId(db) \notin DOMAIN db
                               /\ {j \in DOMAIN db' : db'[j].sku = sku} = {NewId(db)}]_vars

\* C25 witness: an upsert of sku "B" updated product 2 in place (its quantity
\* went from 0 to MaxQty) and an upsert of sku "C" created product 3; there
\* are three products and each sku has one
C25_Witness ==
    \E s, t \in Sessions :
        /\ Done(s) /\ op[s].kind = "upsert_by_sku" /\ op[s].patch.sku = "B"
        /\ outcome[s] = "ok"
        /\ Len(wr[s]) = 1 /\ wr[s][1].kind = "update" /\ wr[s][1].id = 2
        /\ wr[s][1].before.quantity = 0 /\ wr[s][1].after.quantity = MaxQty
        /\ Done(t) /\ op[t].kind = "upsert_by_sku" /\ op[t].patch.sku = "C"
        /\ outcome[t] = "ok"
        /\ Len(wr[t]) = 1 /\ wr[t][1].kind = "insert" /\ wr[t][1].id = 3
        /\ DOMAIN db = {1, 2, 3}
        /\ \A k \in SKUs : Cardinality({j \in DOMAIN db : db[j].sku = k}) = 1

\* C26: when every positive delta of an order.items_delta passes the
\* availability pre-check (each names a stored product holding at least the
\* delta; no other session is active), the handler applies -delta once per
\* cleaned delta, in payload order, every adjust_stock succeeds and no
\* order.rejected is published.
C26_DeltasAppliedOnce ==
    \A s \in Sessions :
        (/\ Done(s) /\ op[s].kind = "order_items_delta"
         /\ \A t \in Sessions \ {s} : op[t].kind = "none"
         /\ \A k \in 1..Len(op[s].deltas) :
               /\ op[s].deltas[k].product_id \in InitIds
               /\ op[s].deltas[k].delta > 0
                    => ~Unavailable(InitQty(op[s].deltas[k].product_id),
                                    op[s].deltas[k].delta))
            => /\ outcome[s] = "ok"
               /\ AllApplied(s)
               /\ Rejections(s) = 0
               /\ calls[s] = [k \in 1..Len(op[s].deltas) |->
                                Event("product.updated", op[s].deltas[k].product_id)]

\* the entries of a received list that are well formed: both values are
\* integers, an item's quantity is not negative, a delta is not zero
WellFormed(o) ==
    SelectSeq(o.raw.list,
              LAMBDA e : /\ e.ok /\ ~e.frac
                         /\ IF o.kind = "order_items_delta" THEN e.n # 0 ELSE e.n >= 0)

\* C27: malformed entries of an items or deltas list (missing keys,
\* non-integer values, negative item quantity, zero delta) are dropped and the
\* handler works through exactly the well-formed remainder; a list of
\* malformed entries only causes no write and no published event.
C27_WellFormedRemainder ==
    \A s \in Sessions :
        (pc[s] # "idle" /\ op[s].kind \in Handlers /\ op[s].raw.shape = "list")
            => LET o == op[s]
                   rest == WellFormed(o)
               IN  /\ Entries(o) =
                        [k \in 1..Len(rest) |->
                            IF o.kind = "order_items_delta"
                            THEN Delta(rest[k].product_id, rest[k].n)
                            ELSE Item(rest[k].product_id, rest[k].n)]
                   /\ rest = <<>> => (wr[s] = <<>> /\ calls[s] = <<>>)

\* the routing keys product-api is to handle
Inbound ==
    {"order.created", "order.items_delta", "order.cancelled", "order.rejected",
     "order.deleted", "order.updated", "order.request_price", "order.ready_for_stock"}

\* C28: a consumed message with any of the eight inbound routing keys is
\* handed to a handler, and a consumed order.created whose one item (a unit of
\* product 1) is available takes that unit from the stock.
C28_EveryKeyDispatched ==
    \A s \in Sessions :
        /\ (pc[s] # "idle" /\ op[s].rk \in Inbound) => op[s].kind # "ignored"
        /\ (/\ Done(s) /\ s = Consumer /\ op[s].rk = "order.created" /\ op[s].decoded
            /\ op[s].raw = RawList("list", <<RawEntry(TRUE, 1, 1)>>))
              => /\ Len(wr[s]) = 1
                 /\ wr[s][1].id = 1
                 /\ wr[s][1].after.quantity = wr[s][1].before.quantity - 1

\* C29: a message whose routing key equals none of the keys consumer_handler
\* compares with (customer.created, order.unknown) reaches no handler: no
\* product is read or written for it, nothing is published, and it is
\* acknowledged at once, whatever its body.
C29_UnmatchedKeyDropped ==
    /\ [](\A s \in Sessions :
            (pc[s] # "idle" /\ op[s].rk \in {"customer.created", "order.unknown"})
                => /\ op[s].kind = "ignored"
                   /\ Done(s) /\ outcome[s] = "ok"
                   /\ ack[s] = "acked"
                   /\ wr[s] = <<>> /\ pub[s] = <<>> /\ calls[s] = <<>>
                   /\ cache[s] = NoRows)
    /\ [][\A s \in Sessions :
            (pc[s] = "idle" /\ pc'[s] # "idle"
               /\ op'[s].rk \in {"customer.created", "order.unknown"})
                => db' = db /\ pub' = pub /\ ack'[s] = "acked"]_vars

\* C29 witness: a customer.created message carrying an item of product 1 and
\* then an order.unknown message with the same body were acknowledged; no
\* product changed and nothing was published
C29_Witness ==
    \E t \in Sessions \ {Consumer} :
        /\ Done(Consumer) /\ op[Consumer].rk = "customer.created"
        /\ op[Consumer].decoded
        /\ op[Consumer].raw = RawList("list", <<RawEntry(TRUE, 1, 1)>>)
        /\ Done(t) /\ op[t].rk = "order.unknown" /\ op[t].raw = op[Consumer].raw
        /\ ack[Consumer] = "acked" /\ ack[t] = "acked"
        /\ db[1].quantity = InitQty(1) /\ db[1].version = 1
        /\ \A s \in Sessions : wr[s] = <<>> /\ pub[s] = <<>>

\* C30: a message whose body is not JSON is not dropped: the handler of its
\* routing key is invoked with the payload {"raw": body}, which has no items,
\* no deltas, no status and no customer_id, so the handler returns without a
\* read, a write or a publish, and the message is acknowledged.
C30_UndecodableStillHandled ==
    /\ [](\A s \in Sessions :
            (pc[s] # "idle" /\ ~op[s].decoded)
                => /\ op[s].rk = "order.cancelled" => op[s].kind = "order_cancelled"
                   /\ op[s].rk = "order.deleted" => op[s].kind = "order_deleted"
                   /\ op[s].rk = "order.items_delta" => op[s].kind = "order_items_delta"
                   /\ op[s].rk \in Inbound \ {"order.created"} => op[s].kind # "ignored"
                   /\ op[s].raw = RawList("missing", <<>>)
                   /\ op[s].status = "" /\ ~op[s].customer
                   /\ op[s].items = <<>> /\ op[s].deltas = <<>>
                   /\ Done(s) /\ outcome[s] = "ok" /\ ack[s] = "acked"
                   /\ wr[s] = <<>> /\ pub[s] = <<>> /\ calls[s] = <<>>)
    /\ [][\A s \in Sessions :
            (pc[s] = "idle" /\ pc'[s] # "idle" /\ ~op'[s].decoded) => db' = db]_vars

\* C30 witness: an order.cancelled message whose body is not JSON reached
\* handle_order_cancelled, which found no items; product 1 is as it was
C30_Witness ==
    /\ Done(Consumer) /\ ~op[Consumer].decoded
    /\ op[Consumer].rk = "order.cancelled" /\ op[Consumer].kind = "order_cancelled"
    /\ op[Consumer].raw.shape = "missing"
    /\ outcome[Consumer] = "ok" /\ ack[Consumer] = "acked"
    /\ wr[Consumer] = <<>>
    /\ db[1].quantity = InitQty(1) /\ db[1].version = 1

\* C31: handle_order_rejected and handle_order_updated never touch the stock
\* and never publish: whatever the status and the items of the payload, a
\* consumed order.rejected or order.updated reaches its own handler, which
\* makes no adjust_stock call, reads and writes no product and publishes
\* nothing.
C31_RejectedUpdatedNoOp ==
    /\ [](\A s \in Sessions :
            (pc[s] # "idle" /\ op[s].rk \in {"order.rejected", "order.updated"})
                => /\ op[s].kind = IF op[s].rk = "order.rejected"
                                   THEN "order_rejected" ELSE "order_updated"
                   /\ Done(s) /\ outcome[s] = "ok"
                   /\ wr[s] = <<>> /\ pub[s] = <<>> /\ calls[s] = <<>>
                   /\ cache[s] = NoRows /\ staged[s].snap = NoProduct)
    /\ [][\A s \in Sessions :
            (pc[s] = "idle" /\ pc'[s] # "idle"
               /\ op'[s].rk \in {"order.rejected", "order.updated"})
                => db' = db /\ pub' = pub /\ calls' = calls]_vars

\* C31 witness: an order.updated with status "cancelled" and a unit of
\* product 1 among its items, then an order.rejected with the same items, were
\* handled; product 1 is as it was and nothing was published
C31_Witness ==
    \E t \in Sessions \ {Consumer} :
        /\ Done(Consumer) /\ op[Consumer].kind = "order_updated"
        /\ op[Consumer].status = "cancelled"
        /\ op[Consumer].raw = RawList("list", <<RawEntry(TRUE, 1, 1)>>)
        /\ Done(t) /\ op[t].kind = "order_rejected" /\ op[t].raw = op[Consumer].raw
        /\ db[1].quantity = InitQty(1) /\ db[1].version = 1
        /\ \A s \in Sessions : wr[s] = <<>> /\ pub[s] = <<>> /\ calls[s] = <<>>

\* what the writes of session s have added to the quantity of product p
RECURSIVE OwnDelta(_, _, _)
OwnDelta(s, p, j) ==
    IF j = 0 THEN 0
    ELSE OwnDelta(s, p, j - 1)
         + (IF wr[s][j].id = p
            THEN wr[s][j].after.quantity - wr[s][j].before.quantity ELSE 0)

\* the quantity product p had when session s, the last one to act, began
StartQty(s, p) ==
    IF s = Consumer THEN InitQty(p) ELSE db[p].quantity - OwnDelta(s, p, Len(wr[s]))

\* item k of the list is available: its product exists and holds the item's
\* quantity once the items before it are served
ItemAvailable(s, items, k) ==
    /\ items[k].product_id \in InitIds
    /\ StartQty(s, items[k].product_id) - TakenBefore(items, k, k - 1) >= items[k].quantity

C33_UpdateFrame ==
    [][\A s \in Sessions :
         (pc[s] = "update_commit" /\ Moved(s))
            => LET id == staged[s].id
                   patch == staged[s].patch
               IN  /\ DOMAIN db' = DOMAIN db
                   /\ \A j \in DOMAIN db \ {id} : db'[j] = db[j]
                   /\ (id \in DOMAIN db /\ db'[id] # db[id])
                        => /\ \A f \in DOMAIN db[id] \ (DOMAIN patch \cup {"version"}) :
                                 db'[id][f] = db[id][f]
                           /\ db'[id].version = db[id].version + 1
                           /\ op[s].kind \in {"adjust_stock"} \cup Batching
                                => /\ db'[id].sku = db[id].sku
                                   /\ db'[id].price = db[id].price
                                   /\ db'[id].is_active = db[id].is_active
                           /\ op[s].kind = "set_active"
                                => /\ db'[id].quantity = db[id].quantity
                                   /\ db'[id].sku = db[id].sku
                                   /\ db'[id].price = db[id].price]_vars

\* C33 witness: an update set the price of product 1 to MaxPrice, then an
\* adjust_stock took its unit: the row has the new price, its sku and its
\* flag, quantity 0 and version 3
C33_Witness ==
    \E s, t \in Sessions :
        /\ Done(s) /\ op[s].kind = "update" /\ op[s].id = 1
        /\ op[s].patch = [price |-> MaxPrice] /\ Len(wr[s]) = 1
        /\ Done(t) /\ op[t].kind = "adjust_stock" /\ op[t].id = 1 /\ op[t].delta = -1
        /\ Len(wr[t]) = 1 /\ wr[t][1].before.price = MaxPrice
        /\ 1 \in DOMAIN db
        /\ db[1] = [Product(InitSku(1), InitQty(1) - 1, TRUE, 3) EXCEPT !.price = MaxPrice]

\* C34: every mutating endpoint answers a NotFound with 404 and a duplicate
\* sku, a version conflict and an insufficient stock with 409, whichever of
\* POST /products, PUT /products/{id}, DELETE /products/{id},
\* PATCH /products/{id}/stock and PATCH /products/{id}/active raised it.
C34_ErrorMapping ==
    \A s \in Sessions :
        (Done(s) /\ op[s].kind \in Routes)
            => /\ outcome[s] = "NotFoundError"
                    => http_status(op[s].kind, outcome[s]) = 404
               /\ outcome[s] \in {"SKUAlreadyExistsError", "ConcurrencyConflictError",
                                  "InsufficientStockError"}
                    => http_status(op[s].kind, outcome[s]) = 409

\* C35: publish_message never raises: whether the exchange is available,
\* missing or failing, a step that calls it records the attempt, publishes the
\* event or nothing, raises nothing and undoes nothing (the table is as the
\* commit left it), and a service call that attempted a publish returns its
\* result.
C35_PublishNeverRaises ==
    /\ [](\A s \in Sessions :
            (Done(s) /\ calls[s] # <<>>)
                => /\ outcome[s] \in {"ok", "InvalidRequestError"}
                   /\ outcome[s] = "ok" => Len(calls[s]) = Cardinality(ExpectedEvents(op[s]))
                   /\ mq = "down" => pub[s] = <<>>
                   /\ mq = "up" => pub[s] = calls[s])
    /\ [][\A s \in Sessions :
            (Moved(s) /\ calls'[s] # calls[s])
                => LET ev == calls'[s][Len(calls'[s])]
                   IN  /\ calls'[s] = Append(calls[s], ev)
                       /\ pub'[s] \in {pub[s], Append(pub[s], ev)}
                       /\ outcome'[s] = IF pc'[s] = "done" THEN "ok" ELSE "none"
                       /\ wr'[s] = wr[s]
                       /\ db' = db]_vars

\* C35 witness: with the exchange not available, an update of product 1 to
\* quantity 0 returned its result: the publish was attempted, nothing was
\* published, and product 1 has quantity 0 at version 2
C35_Witness ==
    \E s \in Sessions :
        /\ mq = "down"
        /\ Done(s) /\ op[s].kind = "update" /\ op[s].id = 1
        /\ op[s].patch = [quantity |-> 0]
        /\ outcome[s] = "ok"
        /\ calls[s] = <<Event("product.updated", 1)>> /\ pub[s] = <<>>
        /\ 1 \in DOMAIN db /\ db[1].quantity = 0 /\ db[1].version = 2

\* the sum of the deltas of the adjust_stock calls of session s on product i
\* whose UPDATE was committed, among its first j writes
RECURSIVE AppliedUpTo(_, _, _)
AppliedUpTo(s, i, j) ==
    IF j = 0 THEN 0
    ELSE AppliedUpTo(s, i, j - 1)
         + (IF wr[s][j].id # i THEN 0
            ELSE IF op[s].kind \in Batching THEN EntryDelta(op[s], NonZero(op[s])[j])
            ELSE op[s].delta)

Applied(s, i) ==
    IF op[s].kind \in {"adjust_stock"} \cup Batching
    THEN AppliedUpTo(s, i, Len(wr[s])) ELSE 0

\* no call of the run sets a quantity directly or adds a product (create and
\* upsert_by_sku carry a quantity)
OnlyAdjusting ==
    \A s \in Sessions :
        \/ op[s].kind \in {"none", "adjust_stock", "set_active", "delete"} \cup Batching
        \/ op[s].kind = "update" /\ "quantity" \notin DOMAIN op[s].patch

\* C36: stock conservation: as long as no call patches a quantity directly,
\* every stored product's quantity is its initial quantity plus the deltas of
\* the adjust_stock calls (direct ones and those of the handlers, from
\* separate sessions, interleaved at will) whose UPDATE was committed; a call
\* that raised InsufficientStockError, NotFoundError or
\* ConcurrencyConflictError committed nothing; and a direct adjust_stock that
\* returned successfully with a delta other than 0 committed exactly its own.
C36_StockConservation ==
    OnlyAdjusting
        => /\ \A i \in DOMAIN db :
                db[i].quantity = InitQty(i) + Applied(Consumer, i)
                                  + Applied(CHOOSE t \in Sessions : t # Consumer, i)
           /\ \A s \in Sessions :
                (Done(s) /\ op[s].kind = "adjust_stock")
                    => /\ outcome[s] \in {"InsufficientStockError", "NotFoundError",
                                          "ConcurrencyConflictError"}
                            => wr[s] = <<>>
                       /\ outcome[s] = "ok"
                            => Len(wr[s]) = (IF op[s].delta = 0 THEN 0 ELSE 1)

\* C36 witness: two adjust_stock calls on product 1 ran at the same time, one
\* taking the unit and one adding a unit; the first was committed, the second
\* lost the race and raised the version conflict: quantity 0, version 2
C36_Witness ==
    \E s, t \in Sessions :
        /\ Done(s) /\ op[s].kind = "adjust_stock" /\ op[s].id = 1 /\ op[s].delta = -1
        /\ outcome[s] = "ok" /\ Len(wr[s]) = 1
        /\ Done(t) /\ op[t].kind = "adjust_stock" /\ op[t].id = 1 /\ op[t].delta = 1
        /\ outcome[t] = "ConcurrencyConflictError" /\ wr[t] = <<>>
        /\ db[1].quantity = InitQty(1) - 1 /\ db[1].version = 2

\* the message of session s is settled and its database session is closed
Settled(s) == Done(s) /\ ack[s] \in {"acked", "rejected"} /\ cache[s] = NoRows

\* C37: every message delivered to the consumer is eventually settled, once
\* (a settled message stays as it was settled), with its database session
\* closed, whether its handler returns, raises or gets a malformed payload,
\* and the consumer then handles the next message to its end as well.
C37_EveryMessageSettled ==
    /\ (\E s \in Sessions : pc[s] # "idle") ~> (\A s \in Sessions : Settled(s))
    /\ [][\A s \in Sessions :
            /\ ack[s] # "none" => ack'[s] = ack[s]
            /\ (ack[s] = "none" /\ ack'[s] # "none") => (pc[s] # "done" /\ pc'[s] = "done")
            /\ (pc[s] # "done" /\ pc'[s] = "done") => (ack'[s] # "none" /\ cache'[s] = NoRows)]_vars

\* C37 witness: handle_order_cancelled raised NotFoundError for the first
\* message (product 3 does not exist) and the message was acknowledged, its
\* session closed; the next message, not JSON, was handled and acknowledged
C37_Witness ==
    \E t \in Sessions \ {Consumer} :
        /\ Settled(Consumer) /\ op[Consumer].kind = "order_cancelled"
        /\ outcome[Consumer] = "NotFoundError" /\ ack[Consumer] = "acked"
        /\ Settled(t) /\ op[t].kind = "order_items_delta"
        /\ outcome[t] = "NotFoundError"

\* session s is inside a handler
Handling(s) == pc[s] \notin {"idle", "done"}

\* C38: start_consumer handles messages one at a time, in delivery order: the
\* handler of the second message is not started before the first message is
\* settled, so the two handlers are never both running, and no step of the
\* first follows a step of the second.
C38_OneAtATime ==
    /\ [](\A s, t \in Sessions : (s # t /\ Handling(s)) => ~Handling(t))
    /\ [](\A t \in Sessions \ {Consumer} :
            pc[t] # "idle" => (Done(Consumer) /\ ack[Consumer] # "none"))
    /\ [][\A t \in Sessions \ {Consumer} :
            pc[t] # "idle"
                => /\ pc'[Consumer] = pc[Consumer]
                   /\ wr'[Consumer] = wr[Consumer]
                   /\ calls'[Consumer] = calls[Consumer]]_vars

\* C38 witness: the first order.cancelled, of two units of product 1, was
\* handled to its end (two writes) and acknowledged; the handler of the second
\* message is now between its two adjustments
C38_Witness ==
    \E t \in Sessions \ {Consumer} :
        /\ Done(Consumer) /\ op[Consumer].kind = "order_cancelled"
        /\ Len(wr[Consumer]) = 2 /\ ack[Consumer] = "acked"
        /\ Handling(t) /\ op[t].kind = "order_cancelled"
        /\ Len(wr[t]) = 1 /\ idx[t] = 2
        /\ db[1].quantity = InitQty(1) + 3

\* the two events of set_active, in the order it publishes them
SetActiveEvents(o) ==
    <<Event("product.updated", o.id),
      Event(IF o.is_active THEN "product.activated" ELSE "product.deactivated", o.id)>>

\* C39: a set_active publishes its events one per step and in order, first
\* product.updated, then product.activated or product.deactivated: what it has
\* published is always a prefix of that pair, a set_active that returned has
\* published exactly the pair, and one whose update raised has published
\* nothing.
C39_SetActiveEventOrder ==
    /\ [](\A s \in Sessions :
            op[s].kind = "set_active"
                => /\ Len(pub[s]) <= 2
                   /\ pub[s] = SubSeq(SetActiveEvents(op[s]), 1, Len(pub[s]))
                   /\ calls[s] = pub[s]
                   /\ Done(s) => IF outcome[s] = "ok"
                                 THEN pub[s] = SetActiveEvents(op[s])
                                 ELSE pub[s] = <<>>
                   /\ (~Done(s) /\ pc[s] # "set_active_publish") => pub[s] = <<>>
                   /\ pc[s] = "set_active_publish" => Len(pub[s]) = 1)
    /\ [][\A s \in Sessions :
            op[s].kind = "set_active" => Len(pub'[s]) <= Len(pub[s]) + 1]_vars

\* C39 witness: set_active(2, false) returned after product.updated and
\* product.deactivated, in that order; set_active(3, true), on a product that
\* does not exist, raised NotFoundError and published nothing
C39_Witness ==
    \E s, t \in Sessions :
        /\ Done(s) /\ op[s].kind = "set_active" /\ op[s].id = 2 /\ ~op[s].is_active
        /\ outcome[s] = "ok"
        /\ pub[s] = <<Event("product.updated", 2), Event("product.deactivated", 2)>>
        /\ ~db[2].is_active
        /\ Done(t) /\ op[t].kind = "set_active" /\ op[t].id = 3 /\ op[t].is_active
        /\ outcome[t] = "NotFoundError" /\ pub[t] = <<>>

====
